---- MODULE Spec2Model ----
(***************************************************************************)
(* Model of the focus search of lcroker/micro_temp: the z-scan             *)
(* (Autofocus.zscan) and the two scoring strategies (Amplitude.focus,      *)
(* Phase.focus).  The repository holds two revisions of this code,         *)
(* src/autofocus.py (used by src/microscope.py and src/gui.py) and the     *)
(* earlier src/Autofocus.py (used by src/Microscope.py); the variable rev  *)
(* says which one a behaviour runs.                                        *)
(*                                                                         *)
(* A frame is modelled by the two statistics the strategies read from it,  *)
(* its mean and its standard deviation; a score std*std/mean is kept as    *)
(* the exact fraction [n, d] and compared by cross-multiplication.         *)
(***************************************************************************)
EXTENDS Integers, Sequences, FiniteSets, TLC

\* ---------------------------------------------------------------- bounds
MaxStart == 1
MaxLen == 3
MaxStep == 2
MaxMean == 2
MaxStd == 1
MaxCalls == 2
MaxStale == 1
MaxRelen == 2
MaxOff == 1
MaxGain == 3
MaxTol == 2
MaxDamp == 2
MaxEntry == 1
MaxFits == 3
MaxSamples == 3
MaxMatches == 5
MaxClicks == 2
MaxOps == 2
MaxAttempts == 3
MaxDelay == 2
MaxMoves == 2

\* ------------------------------------------------------- frames and files
\* A uint8 image whose mean is zero is all zeros, so its deviation is zero.
Frames ==
  {f \in [mean : 0..MaxMean, std : 0..MaxStd] : f.mean = 0 => f.std = 0}

\* The sweep and the frames of the end-to-end example: z = 1000 to 1010,
\* step 1, frames whose scores std*std/mean are 2,3,5,9,4,2,1,1,1,1,1.
E2ESweep == [start |-> 1000, end |-> 1010, step |-> 1]

E2EFrames ==
  << [mean |-> 2, std |-> 2], [mean |-> 3, std |-> 3], [mean |-> 5, std |-> 5],
     [mean |-> 1, std |-> 3], [mean |-> 1, std |-> 2], [mean |-> 2, std |-> 2],
     [mean |-> 1, std |-> 1], [mean |-> 1, std |-> 1], [mean |-> 1, std |-> 1],
     [mean |-> 1, std |-> 1], [mean |-> 1, std |-> 1] >>

Sweeps ==
  {[start |-> s, end |-> s + l, step |-> st] :
      s \in 0..MaxStart, l \in 0..MaxLen, st \in 1..MaxStep}
  \cup {E2ESweep}

Revisions == {"autofocus.py", "Autofocus.py"}
Strategies == {"Amplitude", "Phase"}

VARIABLES
  rev,          \* which revision of the module runs
  strategy,     \* class of the strategy instance: Amplitude or Phase
  stage_z,      \* Stage.z, the focus position last commanded
  lamp,         \* TransmittedLamp Label: "On" or "Off"
  start, end, step,      \* self.start, self.end, self.step
  captures,     \* self.captures
  files,        \* the image directory: path -> frame written there
  pc,           \* position in focus(): idle, sweep, score, done
  i,            \* index of the zscan loop
  j,            \* index of the scoring loop
  max_var, max_index, min_var, min_index, variances, z_values,
  outcome,      \* how focus() ended: "" (running), "return", or the exception
  result,       \* <<z>> once focus() has returned z
  captured_at,  \* history: stage_z at the capture of each element of captures
  attempts,     \* history: per loop iteration, its index, position and success
  calls,        \* number of focus() calls made on the strategy instance
  stale,        \* history: Len(self.captures) when the current call began
  \* --- cell acquisition and calibration (CustomCellAcquisition)
  stage_x, stage_y,    \* Stage.x, Stage.y, in units of 0.05 um
  frame_size,          \* width and height of the frames the camera delivers
  pixel_type,          \* the camera's PixelType: "RGB32" or "GREY8"
  gain,                \* the world: pixels the image shifts per 0.3 um, per axis
  apc,                 \* position in acquire_cell() / calibrate()
  cell_coordinates,    \* argument of acquire_cell
  acq_origin,          \* initial_x, initial_y of the running operation
  acq_image,           \* acquire_cell's local `image`
  cell_center,         \* << >> for None, or <<(cx, cy)>>
  shots,               \* history: number of frames captured so far
  commands,            \* history: the (x, y) commanded by each stage.move
  acq_outcome,         \* "" (running), "return", or the exception raised
  acquired,            \* << >>, or <<draw_image>> returned by acquire_cell
  cal_k,               \* index into calibrate's movements
  pixel_displacements, \* calibrate's list of measured (pixel_dx, pixel_dy)
  pixel_to_um_ratio,   \* << >> until calibrate sets self.pixel_to_um_ratio
  \* --- the transform computation (scaling.py)
  sc_pc,               \* position in the script
  A,                   \* the world: pixel shift = A * stage shift
  stage_shift,         \* << stage_shift_x, stage_shift_Y >>
  actual_shift,        \* << actual_shift_x, actual_shift_y >>
  T,                   \* << >>, or the computed [a, b, c, d]
  pixel_in,            \* the (px, py) given to predict_stage_movement
  stage_movement,       \* << >>, or what predict_stage_movement returned
  \* --- movement compensation (fit_model / compensate_movement)
  x_model,             \* self.x_model: "unset" (no such attribute), "None", or a model
  y_model,             \* self.y_model, likewise
  fits,                \* history: what each fit_model call was given and returned
  comp_target,         \* << >>, or the (target_dx, target_dy) of compensate_movement
  comp_outcome,        \* "" (not called), "return", or the exception raised
  comp_result,         \* << >>, or the models compensate_movement minimised over
  \* --- calculate_displacement (feature matching)
  matches,             \* the (m, n) pairs knnMatch returned, as their distances
  good_matches,        \* the matches the ratio test kept
  homography_called,   \* whether cv2.findHomography has been called
  disp_outcome,        \* "" (not run), "return", or the exception raised
  \* --- the GUI (MicroscopeControlApp and its MicroManagerInitThread)
  gui_microscope,      \* self.microscope: "None" or "Microscope"
  init_thread,         \* "none", "core", "components" (the thread's position), "ok"/"failed" (signal queued)
  start_enabled,       \* whether start_headless_button is enabled
  gui_main,            \* what the main thread runs: "idle", a handler, "shutdown", "closed"
  closing,             \* closeEvent has been entered and is processing pending events
  handled,             \* history: the microscope handlers invoked, the handle each saw, its outcome
  \* --- Microscope operations on the camera settings and the lamp
  camera_settings,     \* exposure, ExposureAuto, PixelType, Binning of the camera and the FilterCube label
  mic_lamp,            \* the TransmittedLamp label, "On" or "Off"
  mic_autofocus,       \* self.autofocus: "None" or the strategy object
  mic_cell_identifier, \* self.cell_identifier: "None" or the identifier object
  mic_log,             \* history: each operation, the settings before and after it, how it ended, the lamp after it
  \* --- Microscope.__init__ and initialize_core
  max_attempts,        \* parameter of initialize_core
  delay,               \* parameter of initialize_core, seconds
  headless,            \* self.headless
  attempt,             \* the loop variable of initialize_core; 0 before the loop
  boot_pc,             \* "idle", "try", "except", "returned" (initialize_core), "done" (__init__ left)
  tries,               \* history: the attempts made and the waits of `delay` seconds
  mm_core,             \* self.core: "unset", "Core" or "None"
  components,          \* the camera, stage and lamp objects created
  boot_outcome,        \* "" (under way), "return", or "Exception" raised by __init__
  \* --- Stage.move on its own (Stage.py and stage.py)
  stage_read,          \* the position Stage.__init__ read from the device
  stage_cached,        \* self.x, self.y, self.z
  stage_commanded,     \* what set_xy_position and set_position were last given
  moves                \* history: the arguments of each move, the cache before it, what it commanded

focusVars ==
  << rev, strategy, stage_z, lamp, start, end, step, captures, files, pc, i, j,
     max_var, max_index, min_var, min_index, variances, z_values, outcome,
     result, captured_at, attempts >>
sessionVars == << calls, stale >>
acqVars ==
  << stage_x, stage_y, frame_size, pixel_type, gain, apc, cell_coordinates,
     acq_origin, acq_image, cell_center, shots, commands, acq_outcome, acquired,
     cal_k, pixel_displacements, pixel_to_um_ratio >>
scVars == << sc_pc, A, stage_shift, actual_shift, T, pixel_in, stage_movement >>
coreVars == << focusVars, sessionVars, acqVars, scVars >>
compVars == << x_model, y_model, fits, comp_target, comp_outcome, comp_result >>
matchVars == << matches, good_matches, homography_called, disp_outcome >>
guiVars == << gui_microscope, init_thread, start_enabled, gui_main, closing, handled >>
micVars == << camera_settings, mic_lamp, mic_autofocus, mic_cell_identifier, mic_log >>
bootVars == << max_attempts, delay, headless, attempt, boot_pc, tries, mm_core, components, boot_outcome >>
stgVars == << stage_read, stage_cached, stage_commanded, moves >>
notComp == << coreVars, matchVars, guiVars, micVars, bootVars, stgVars >>
notMatch == << coreVars, compVars, guiVars, micVars, bootVars, stgVars >>
notGui == << coreVars, compVars, matchVars, micVars, bootVars, stgVars >>
notMic == << coreVars, compVars, matchVars, guiVars, bootVars, stgVars >>
notBoot == << coreVars, compVars, matchVars, guiVars, micVars, stgVars >>
notStg == << coreVars, compVars, matchVars, guiVars, micVars, bootVars >>
extraVars == << compVars, matchVars, guiVars, micVars, bootVars, stgVars >>
otherVars == << acqVars, scVars, extraVars >>
vars == << focusVars, sessionVars, otherVars >>

\* ------------------------------------------------------------- arithmetic
\* a > b and a < b on fractions with positive denominators.
Greater(a, b) == a.n * b.d > b.n * a.d
Less(a, b) == a.n * b.d < b.n * a.d

\* np.arange(start, end, step): the number of values and the i-th value.
arange_len_inclusive(s, e, st) == IF e >= s THEN (e - s) \div st + 1 ELSE 0
arange_len(s, e, st) == IF e > s THEN (e - s + st - 1) \div st ELSE 0
arange_at(s, st, k) == s + k * st

\* Python's seq[k] for a list: a negative k counts from the end.
PyIndex(seq, k) == IF k < 0 THEN seq[Len(seq) + k + 1] ELSE seq[k + 1]

\* ------------------------------------------------------------------ paths
\* os.path.join(image_dir, "images", filename): the new revision names the
\* file by the position, the old one by the loop index.
capture_path(r, k, z_val) ==
  IF r = "autofocus.py" THEN [dir |-> "images", by |-> "z", key |-> z_val]
  ELSE [dir |-> "images", by |-> "i", key |-> k]

IsPath(x) == "dir" \in DOMAIN x

\* What zscan appends to self.captures: (pre_path, z_val) in the new
\* revision, pre_path alone in the old one.
capture_entry(r, path, z_val) ==
  IF r = "autofocus.py" THEN [pre_path |-> path, z_val |-> z_val] ELSE path

\* tiff.imread(x) succeeds when x names a file that exists.
imread_ok(x, fs) == IsPath(x) /\ x \in DOMAIN fs

\* -------------------------------------------------------------- constants
max_var_init == [n |-> -1, d |-> 1]
\* 1e10 in the source; written 10^6 to stay within the model's integers.
min_var_init == [n |-> 1000000, d |-> 1]

NoFrame == [mean |-> 0, std |-> 0]

\* CustomCellAcquisition.__init__: the frame geometry and the pixel-to-um
\* ratios are literals of the constructor.
image_width == 680
image_height == 510
image_center == << image_width \div 2, image_height \div 2 >>
\* 0.3 um per pixel, as a fraction
pixel_to_um_ratio_x == [n |-> 3, d |-> 10]
pixel_to_um_ratio_y == [n |-> 3, d |-> 10]
\* the stage positions of the model are integers in units of 0.05 um
UnitsPerUm == 20

NoImage == [id |-> 0, w |-> 0, h |-> 0, kind |-> "None"]

\* ------------------------------------ the further components at rest
\* CustomCellAcquisition.__init__ assigns neither x_model nor y_model.
CompRest ==
  /\ x_model = "unset" /\ y_model = "unset"
  /\ fits = << >>
  /\ comp_target = << >>
  /\ comp_outcome = ""
  /\ comp_result = << >>

\* calculate_displacement not yet called.
MatchRest ==
  /\ matches = << >>
  /\ good_matches = << >>
  /\ homography_called = FALSE
  /\ disp_outcome = ""

\* MicroscopeControlApp.__init__: no microscope, no thread, the button enabled.
GuiRest ==
  /\ gui_microscope = "None"
  /\ init_thread = "none"
  /\ start_enabled = TRUE
  /\ gui_main = "idle"
  /\ closing = FALSE
  /\ handled = << >>

\* Microscope.__init__: no strategies; the devices as configured, the lamp off.
MicRest ==
  /\ camera_settings = [Exposure |-> 15, ExposureAuto |-> "0", PixelType |-> "RGB32", Binning |-> "1x1", FilterCube |-> "Position-1"]
  /\ mic_lamp = "Off"
  /\ mic_autofocus = "None"
  /\ mic_cell_identifier = "None"
  /\ mic_log = << >>

\* No Microscope is being constructed (initialize_core's defaults).
BootRest ==
  /\ max_attempts = 1
  /\ delay = 0
  /\ headless = TRUE
  /\ attempt = 0
  /\ boot_pc = "idle"
  /\ tries = << >>
  /\ mm_core = "unset"
  /\ components = {}
  /\ boot_outcome = ""

\* A Stage constructed at the origin and not yet moved.
StgRest ==
  /\ stage_read = [x |-> 0, y |-> 0, z |-> 0]
  /\ stage_cached = stage_read
  /\ stage_commanded = stage_read
  /\ moves = << >>

RestExceptComp == MatchRest /\ GuiRest /\ MicRest /\ BootRest /\ StgRest
RestExceptMatch == CompRest /\ GuiRest /\ MicRest /\ BootRest /\ StgRest
RestExceptGui == CompRest /\ MatchRest /\ MicRest /\ BootRest /\ StgRest
RestExceptMic == CompRest /\ MatchRest /\ GuiRest /\ BootRest /\ StgRest
RestExceptBoot == CompRest /\ MatchRest /\ GuiRest /\ MicRest /\ StgRest
RestExceptStg == CompRest /\ MatchRest /\ GuiRest /\ MicRest /\ BootRest
ExtraRest == CompRest /\ MatchRest /\ GuiRest /\ MicRest /\ BootRest /\ StgRest

\* scaling.py before its transform computation, with the values of the
\* script: stage_shift_x = stage_shift_Y = 200.
stage_shift_x == 200
stage_shift_Y == 200
ScalingRest ==
  /\ sc_pc = "start"
  /\ A = << 1, 0, 0, 1 >>
  /\ stage_shift = << stage_shift_x, stage_shift_Y >>
  /\ actual_shift = << stage_shift_x, stage_shift_Y >>
  /\ T = << >>
  /\ pixel_in = << >>
  /\ stage_movement = << >>

\* The acquisition object before any operation on it.
AcqRest ==
  /\ apc = "idle"
  /\ cell_coordinates = << 0, 0 >>
  /\ acq_origin = << 0, 0 >>
  /\ acq_image = NoImage
  /\ cell_center = << >>
  /\ shots = 0
  /\ commands = << >>
  /\ acq_outcome = ""
  /\ acquired = << >>
  /\ cal_k = 0
  /\ pixel_displacements = << >>
  /\ pixel_to_um_ratio = << >>

Init ==
  /\ frame_size = [w |-> image_width, h |-> image_height]
  /\ pixel_type = "RGB32"
  /\ gain = << 1, 1 >>
  /\ stage_x = 0 /\ stage_y = 0
  /\ AcqRest
  /\ ScalingRest
  /\ ExtraRest
  /\ rev \in Revisions
  /\ strategy \in Strategies
  /\ stage_z \in 0..MaxStart
  /\ lamp = "Off"
  /\ start = 0 /\ end = 0 /\ step = 1
  /\ captures = << >>
  /\ files = << >>
  /\ pc = "idle"
  /\ i = 0 /\ j = 0
  /\ max_var = max_var_init /\ max_index = -1
  /\ min_var = min_var_init /\ min_index = -1
  /\ variances = << >> /\ z_values = << >>
  /\ outcome = "" /\ result = << >>
  /\ captured_at = << >> /\ attempts = << >>
  /\ calls = 0 /\ stale = 0


\* ------------------------------------------------------------------ zscan
\* Camera.capture at loop index k.  The new revision's Camera.capture
\* catches every exception and returns None, and tiff.imwrite(path, None)
\* then raises inside zscan's try; the old revision's Camera.capture raises
\* itself.  Either way the result is a frame or a failure.
CameraFrames(k) ==
  IF [start |-> start, end |-> end, step |-> step] = E2ESweep
  THEN {E2EFrames[k + 1]}
  ELSE Frames

Camera_capture(k) ==
  {[ok |-> TRUE, img |-> f] : f \in CameraFrames(k)}
  \cup {[ok |-> FALSE, img |-> NoFrame]}

\* The focus position after zscan's prologue: the new revision commands
\* stage.move(z=start) before the lamp is switched on, the old one does not.
zscan_prologue_z(r, s, z) == IF r = "autofocus.py" THEN s ELSE z

\* The loop index after an iteration whose capture raised: the except clause
\* prints and the loop goes on with the next position.
zscan_after_error_abort(k, n) == n
zscan_after_error(k, n) == k + 1

\* The position commanded at the end of a loop iteration: stage.move(z=z_val).
zscan_iteration_move(z_val, st) == z_val

\* The position commanded after the loop: stage.move(z=start).
zscan_epilogue_z_stay(s, z) == z
zscan_epilogue_z(s, z) == s

\* The lamp after the loop: lamp.set_off().
zscan_epilogue_lamp == "Off"

\* focus(start, end, step) is called; zscan runs up to its loop.
\* The four warm-up captures of the new revision discard their result and
\* touch no state of the scan.  The camera is a Camera, as Microscope builds
\* it (the SpectralCamera branch is a placeholder).
Focus ==
  /\ pc = "idle"
  /\ \E sw \in Sweeps :
       /\ start' = sw.start /\ end' = sw.end /\ step' = sw.step
       /\ stage_z' = zscan_prologue_z(rev, sw.start, stage_z)
  /\ lamp' = "On"
  /\ i' = 0
  /\ pc' = "sweep"
  /\ calls' = calls + 1
  /\ UNCHANGED << rev, strategy, captures, files, j, max_var, max_index,
                  min_var, min_index, variances, z_values, outcome, result,
                  captured_at, attempts, stale, otherVars >>

\* One iteration of zscan's loop over np.arange(start, end, step).
ZscanStep ==
  /\ pc = "sweep"
  /\ i < arange_len(start, end, step)
  /\ LET z_val == arange_at(start, step, i)
         path == capture_path(rev, i, z_val)
     IN \E c \in Camera_capture(i) :
          /\ IF c.ok
             THEN /\ files' = (path :> c.img) @@ files
                  /\ captures' = Append(captures, capture_entry(rev, path, z_val))
                  /\ captured_at' = Append(captured_at, stage_z)
                  /\ i' = i + 1
             ELSE /\ UNCHANGED << files, captures, captured_at >>
                  /\ i' = zscan_after_error(i, arange_len(start, end, step))
          /\ attempts' = Append(attempts, [i |-> i, z_val |-> z_val, ok |-> c.ok])
          /\ stage_z' = zscan_iteration_move(z_val, step)
  /\ UNCHANGED << rev, strategy, lamp, start, end, step, pc, j, max_var,
                  max_index, min_var, min_index, variances, z_values, outcome,
                  result,
                  sessionVars, otherVars >>

\* The loop is over: zscan returns the axis to start and switches the lamp
\* off; focus() initialises its running best.
ZscanEnd ==
  /\ pc = "sweep"
  /\ i >= arange_len(start, end, step)
  /\ stage_z' = zscan_epilogue_z(start, stage_z)
  /\ lamp' = zscan_epilogue_lamp
  /\ max_var' = max_var_init /\ max_index' = -1
  /\ min_var' = min_var_init /\ min_index' = -1
  /\ variances' = << >> /\ z_values' = << >>
  /\ j' = 0
  /\ pc' = "score"
  /\ UNCHANGED << rev, strategy, start, end, step, captures, files, i, outcome,
                  result, captured_at, attempts,
                  sessionVars, otherVars >>

\* ---------------------------------------------------------------- scoring
\* What the scoring loop hands to tiff.imread.  Amplitude.focus of the new
\* revision unpacks the element into (capture_path, z_val); every other loop
\* (both strategies of the old revision, Phase.focus of the new one) passes
\* the element of self.captures itself.
imread_arg(r, s, entry) ==
  IF r = "autofocus.py" /\ s = "Amplitude" THEN entry.pre_path ELSE entry

\* The position Amplitude.focus of the new revision appends to z_values.
entry_z_val(entry) == entry.z_val

\* `if mean == 0: continue`: a frame is scored only when its mean is not zero.
scorable_always(image) == TRUE
scorable(image) == image.mean # 0

\* norm_var = std * std / mean
norm_var(image) == [n |-> image.std * image.std, d |-> image.mean]

\* `if norm_var > max_var` and `if norm_var < min_var`.
improves_max(v, best) == Greater(v, best)
improves_min(v, best) == Less(v, best)

\* One iteration of the loop over enumerate(self.captures).  An exception of
\* imread is caught by the loop's except clause, which only prints.
ScoreStep ==
  /\ pc = "score"
  /\ j < Len(captures)
  /\ LET entry == captures[j + 1]
         arg == imread_arg(rev, strategy, entry)
     IN IF imread_ok(arg, files) /\ scorable(files[arg])
        THEN LET v == norm_var(files[arg])
             IN /\ variances' = Append(variances, v)
                /\ z_values' =
                     IF rev = "autofocus.py" /\ strategy = "Amplitude"
                     THEN Append(z_values, entry_z_val(entry))
                     ELSE z_values
                /\ IF strategy = "Amplitude"
                   THEN /\ IF improves_max(v, max_var)
                           THEN max_var' = v /\ max_index' = j
                           ELSE UNCHANGED << max_var, max_index >>
                        /\ UNCHANGED << min_var, min_index >>
                   ELSE /\ IF improves_min(v, min_var)
                           THEN min_var' = v /\ min_index' = j
                           ELSE UNCHANGED << min_var, min_index >>
                        /\ UNCHANGED << max_var, max_index >>
        ELSE UNCHANGED << variances, z_values, max_var, max_index, min_var,
                          min_index >>
  /\ j' = j + 1
  /\ UNCHANGED << rev, strategy, stage_z, lamp, start, end, step, captures,
                  files, pc, i, outcome, result, captured_at, attempts,
                  sessionVars, otherVars >>

\* plot_focus_measure reads z_values[1] - z_values[0].
plot_focus_measure_ok(zs) == Len(zs) >= 2

\* self.captures[k] is defined for -len <= k < len.
InRange(seq, k) == -Len(seq) <= k /\ k < Len(seq)

\* `return self.start + self.step * index`
position_of_index(s, st, k) == s + st * k

\* The end of focus(): the new Amplitude.focus plots and returns
\* self.captures[max_index][1]; the others return start + step * index.
FocusReturn ==
  /\ pc = "score"
  /\ j >= Len(captures)
  /\ IF rev = "autofocus.py" /\ strategy = "Amplitude"
     THEN IF plot_focus_measure_ok(z_values) /\ InRange(captures, max_index)
          THEN /\ outcome' = "return"
               /\ result' = << PyIndex(captures, max_index).z_val >>
          ELSE /\ outcome' = "IndexError"
               /\ result' = << >>
     ELSE /\ outcome' = "return"
          /\ result' =
               << position_of_index(start, step,
                    IF strategy = "Amplitude" THEN max_index ELSE min_index) >>
  /\ pc' = "done"
  /\ UNCHANGED << rev, strategy, stage_z, lamp, start, end, step, captures,
                  files, i, j, max_var, max_index, min_var, min_index,
                  variances, z_values, captured_at, attempts,
                  sessionVars, otherVars >>

Next == Focus \/ ZscanStep \/ ZscanEnd \/ ScoreStep \/ FocusReturn

Spec == Init /\ [][Next]_vars

\* ------------------------------------------------- focus() called again
\* Microscope.auto_focus calls self.autofocus.focus on the strategy instance
\* that set_autofocus_strategy built, so focus() can run again on the same
\* instance.  Neither zscan nor focus resets self.captures, and the files of
\* the image directory stay.
ReSweeps ==
  {[start |-> s, end |-> s + l, step |-> st] :
      s \in 0..MaxStart, l \in 0..MaxRelen, st \in 1..MaxStep}

Refocus ==
  /\ pc = "done"
  /\ calls < MaxCalls
  /\ Len(captures) <= MaxStale
  /\ \E sw \in ReSweeps :
       /\ start' = sw.start /\ end' = sw.end /\ step' = sw.step
       /\ stage_z' = zscan_prologue_z(rev, sw.start, stage_z)
  /\ lamp' = "On"
  /\ i' = 0
  /\ pc' = "sweep"
  /\ outcome' = "" /\ result' = << >>
  /\ attempts' = << >>
  /\ calls' = calls + 1
  /\ stale' = Len(captures)
  /\ UNCHANGED << rev, strategy, captures, files, j, max_var, max_index,
                  min_var, min_index, variances, z_values, captured_at,
                  otherVars >>

NextReuse ==
  Focus \/ ZscanStep \/ ZscanEnd \/ ScoreStep \/ FocusReturn \/ Refocus

SpecReuse == Init /\ [][NextReuse]_vars

\* ------------------------------------------- cell acquisition: the world
\* Frames are 680 x 510 at the binning the constructor assumes; at the next
\* finer binning the camera options offer they are twice as wide and high
\* (Camera.capture reads the size from the core at every capture).
FrameSizes ==
  {[w |-> image_width, h |-> image_height],
   [w |-> 2 * image_width, h |-> 2 * image_height]}
PixelTypes == {"RGB32", "GREY8"}

\* gain[a] is the number of pixels the image really shifts along axis a when
\* the stage moves by the 0.3 um the constructor assumes for one pixel; a
\* gain of 1 on both axes makes pixel_to_um_ratio_x/_y exact.
Gains == 1..MaxGain
UnitsPerPixel == 6
Shift(g, units) == (g * units) \div UnitsPerPixel

\* Where Stage.__init__ finds the x/y stage, in stage units.
StagePositions == {<< 0, 0 >>, << 400, -200 >>}

\* The cells a caller can ask for: pixel coordinates inside the frame, near
\* its middle or a quarter frame to the side.
OffsetsX(fs) == {10 * k : k \in -MaxOff..MaxOff} \cup {-(fs.w \div 4), fs.w \div 4}
OffsetsY == {10 * k : k \in -MaxOff..MaxOff}
CellCoordinates(fs) ==
  {<< fs.w \div 2 + ox, fs.h \div 2 + oy >> : ox \in OffsetsX(fs), oy \in OffsetsY}

\* Where the (static) target appears in a frame taken with the stage at
\* (x, y): it was at coords when the stage was at origin.
TargetAt(coords, origin, g, x, y) ==
  << coords[1] + Shift(g[1], x - origin[1]),
     coords[2] + Shift(g[2], y - origin[2]) >>

InFrame(img, t) == 0 <= t[1] /\ t[1] < img.w /\ 0 <= t[2] /\ t[2] < img.h

\* Microscope.capture_image returns what Camera.capture returns: the n-th
\* frame, in the camera's size and pixel type, or None.
capture_image(n, fs, pt) ==
  {[id |-> n, w |-> fs.w, h |-> fs.h, kind |-> pt], NoImage}

\* cv2.cvtColor(image, COLOR_BGR2GRAY) needs a colour image: it raises on
\* None and on the 2-D array of a GREY8 frame.
cvtColor_ok(img) == img.kind = "RGB32"

\* find_cell_center: the centroid of the largest contour, or None.
find_cell_center(img, t) == IF InFrame(img, t) THEN << t >> ELSE << >>

\* calculate_pixel_distance: image_center - coordinates
calculate_pixel_distance(coordinates) ==
  << image_center[1] - coordinates[1], image_center[2] - coordinates[2] >>

\* `dx_pixels * self.pixel_to_um_ratio_x` for the first move, and the same
\* `* 0.5` for the fine-tune move; the result in stage units.
first_move_factor == [n |-> 1, d |-> 1]
fine_tune_factor == [n |-> 1, d |-> 2]
stage_delta(pixels, ratio, factor) ==
  (pixels * ratio.n * factor.n * UnitsPerUm) \div (ratio.d * factor.d)

\* draw_cross_on_image: a copy of the image with a cross of half-length
\* cross_size at self.image_center.
cross_size == 20
draw_cross_on_image(img) ==
  [base |-> img.id, w |-> img.w, h |-> img.h,
   cross_at |-> image_center, cross_size |-> cross_size]

\* One stage.move of the running operation, as the history keeps it.
Command(px, from, to) == [pixels |-> px, from |-> from, to |-> to]

\* ------------------------------------------------------ acquire_cell
\* acquire_cell(cell_coordinates) up to its first capture: the first move,
\* by the whole pixel distance.
AcquireCell ==
  /\ apc = "idle"
  /\ \E c \in CellCoordinates(frame_size) :
       LET px == calculate_pixel_distance(c)
           x == stage_x + stage_delta(px[1], pixel_to_um_ratio_x, first_move_factor)
           y == stage_y + stage_delta(px[2], pixel_to_um_ratio_y, first_move_factor)
       IN /\ cell_coordinates' = c
          /\ acq_origin' = << stage_x, stage_y >>
          /\ stage_x' = x /\ stage_y' = y
          /\ commands' = << Command(px, << stage_x, stage_y >>, << x, y >>) >>
  /\ apc' = "check"
  /\ UNCHANGED << frame_size, pixel_type, gain, acq_image, cell_center, shots,
                  acq_outcome, acquired, cal_k, pixel_displacements,
                  pixel_to_um_ratio, focusVars, sessionVars, scVars, extraVars >>

\* `image = capture_image(); cell_center = find_cell_center(image)` and,
\* `if cell_center:`, the fine-tune move by half the pixel distance.
AcquireCheck ==
  /\ apc = "check"
  /\ \E img \in capture_image(shots + 1, frame_size, pixel_type) :
       /\ acq_image' = img
       /\ IF ~cvtColor_ok(img)
          THEN /\ acq_outcome' = "cv2.error"
               /\ apc' = "done"
               /\ UNCHANGED << stage_x, stage_y, cell_center, commands >>
          ELSE LET cc == find_cell_center(img,
                           TargetAt(cell_coordinates, acq_origin, gain,
                                    stage_x, stage_y))
               IN /\ cell_center' = cc
                  /\ acq_outcome' = acq_outcome
                  /\ IF cc # << >>
                     THEN LET px == calculate_pixel_distance(cc[1])
                              x == stage_x + stage_delta(px[1], pixel_to_um_ratio_x, fine_tune_factor)
                              y == stage_y + stage_delta(px[2], pixel_to_um_ratio_y, fine_tune_factor)
                          IN /\ stage_x' = x /\ stage_y' = y
                             /\ commands' = Append(commands,
                                  Command(px, << stage_x, stage_y >>, << x, y >>))
                             /\ apc' = "recapture"
                     ELSE /\ apc' = "draw"
                          /\ UNCHANGED << stage_x, stage_y, commands >>
  /\ shots' = shots + 1
  /\ UNCHANGED << frame_size, pixel_type, gain, cell_coordinates, acq_origin,
                  acquired, cal_k, pixel_displacements, pixel_to_um_ratio,
                  focusVars, sessionVars, scVars, extraVars >>

\* The capture after the fine-tune move.
AcquireRecapture ==
  /\ apc = "recapture"
  /\ acq_image' \in capture_image(shots + 1, frame_size, pixel_type)
  /\ shots' = shots + 1
  /\ apc' = "draw"
  /\ UNCHANGED << stage_x, stage_y, frame_size, pixel_type, gain,
                  cell_coordinates, acq_origin, cell_center, commands,
                  acq_outcome, acquired, cal_k, pixel_displacements,
                  pixel_to_um_ratio, focusVars, sessionVars, scVars, extraVars >>

\* draw_cross_on_image(image), imwrite and return; image.copy() raises when
\* the last capture returned None.
AcquireReturn ==
  /\ apc = "draw"
  /\ IF acq_image = NoImage
     THEN /\ acq_outcome' = "AttributeError"
          /\ acquired' = << >>
     ELSE /\ acq_outcome' = "return"
          /\ acquired' = << draw_cross_on_image(acq_image) >>
  /\ apc' = "done"
  /\ UNCHANGED << stage_x, stage_y, frame_size, pixel_type, gain,
                  cell_coordinates, acq_origin, acq_image, cell_center, shots,
                  commands, cal_k, pixel_displacements, pixel_to_um_ratio,
                  focusVars, sessionVars, scVars, extraVars >>

\* --------------------------------------------------------- calibrate
\* Fractions n/d, kept in lowest terms.
RECURSIVE GCD(_, _)
GCD(a, b) == IF b = 0 THEN a ELSE GCD(b, a % b)
Abs(a) == IF a < 0 THEN -a ELSE a
Frac(n, d) ==
  LET g == GCD(Abs(n), Abs(d))
  IN IF g = 0 THEN [n |-> n, d |-> d] ELSE [n |-> n \div g, d |-> d \div g]
FracAdd(a, b) == Frac(a.n * b.d + b.n * a.d, a.d * b.d)
FracEq(a, b) == a.n * b.d = b.n * a.d
RECURSIVE FracSum(_)
FracSum(fs) == IF fs = << >> THEN Frac(0, 1) ELSE FracAdd(Head(fs), FracSum(Tail(fs)))
\* np.mean
mean(fs) == LET t == FracSum(fs) IN Frac(t.n, t.d * Len(fs))

\* `movements = [(10, 0), (0, 10), (20, 0), (0, 20)]`, in um
movements == << << 10, 0 >>, << 0, 10 >>, << 20, 0 >>, << 0, 20 >> >>

\* calculate_displacement(initial_image, moved_image): the translation of
\* the homography between the two frames, here the true shift of the image.
\* Both images go through cv2.cvtColor first.
calculate_displacement(g, dx_units, dy_units) ==
  << Frac(g[1] * dx_units, UnitsPerPixel), Frac(g[2] * dy_units, UnitsPerPixel) >>

\* `abs(dx / pixel_dx)`
abs_ratio(d, pixel_d) == Frac(Abs(d * pixel_d.d), Abs(pixel_d.n))

\* The list `ratios`: for each movement, abs(dx / pixel_dx) if dx != 0 and
\* abs(dy / pixel_dy) if dy != 0.
RECURSIVE ratios(_, _)
ratios(k, displacements) ==
  IF k > Len(displacements) THEN << >>
  ELSE (IF movements[k][1] # 0
        THEN << abs_ratio(movements[k][1], displacements[k][1]) >> ELSE << >>)
       \o (IF movements[k][2] # 0
           THEN << abs_ratio(movements[k][2], displacements[k][2]) >> ELSE << >>)
       \o ratios(k + 1, displacements)

\* `stage.move(x=initial_x, y=initial_y)` at the end of each iteration.
move_back_stay(initial, current) == current
move_back(initial, current) == initial

\* calibrate() up to its loop: the initial image and the initial position.
Calibrate ==
  /\ apc = "idle"
  /\ cal_k = 0
  /\ acq_image' \in capture_image(shots + 1, frame_size, pixel_type)
  /\ shots' = shots + 1
  /\ acq_origin' = << stage_x, stage_y >>
  /\ pixel_displacements' = << >>
  /\ commands' = << >>
  /\ cal_k' = 1
  /\ apc' = "cal_move"
  /\ UNCHANGED << stage_x, stage_y, frame_size, pixel_type, gain,
                  cell_coordinates, cell_center, acq_outcome, acquired,
                  pixel_to_um_ratio, focusVars, sessionVars, scVars, extraVars >>

\* `stage.move(x=initial_x + dx, y=initial_y + dy)`
CalibrateMove ==
  /\ apc = "cal_move"
  /\ cal_k <= Len(movements)
  /\ LET x == acq_origin[1] + movements[cal_k][1] * UnitsPerUm
         y == acq_origin[2] + movements[cal_k][2] * UnitsPerUm
     IN /\ stage_x' = x /\ stage_y' = y
        /\ commands' = Append(commands,
             Command(<< 0, 0 >>, << stage_x, stage_y >>, << x, y >>))
  /\ apc' = "cal_measure"
  /\ UNCHANGED << frame_size, pixel_type, gain, cell_coordinates, acq_origin,
                  acq_image, cell_center, shots, acq_outcome, acquired, cal_k,
                  pixel_displacements, pixel_to_um_ratio, focusVars,
                  sessionVars, scVars, extraVars >>

\* The moved image, its displacement against the initial image, and the
\* move back.  An exception of calculate_displacement leaves calibrate():
\* cvtColor on None or on a GREY8 frame, or too few matches for the
\* homography.
CalibrateMeasure ==
  /\ apc = "cal_measure"
  /\ \E moved \in capture_image(shots + 1, frame_size, pixel_type),
        matched \in BOOLEAN :
       IF cvtColor_ok(acq_image) /\ cvtColor_ok(moved) /\ matched
       THEN /\ pixel_displacements' = Append(pixel_displacements,
                 calculate_displacement(gain, stage_x - acq_origin[1],
                                        stage_y - acq_origin[2]))
            /\ LET back == move_back(acq_origin, << stage_x, stage_y >>)
               IN /\ stage_x' = back[1] /\ stage_y' = back[2]
                  /\ commands' = Append(commands,
                       Command(<< 0, 0 >>, << stage_x, stage_y >>, back))
            /\ cal_k' = cal_k + 1
            /\ apc' = "cal_move"
       ELSE /\ apc' = "idle"
            /\ UNCHANGED << pixel_displacements, stage_x, stage_y, commands,
                            cal_k >>
  /\ shots' = shots + 1
  /\ UNCHANGED << frame_size, pixel_type, gain, cell_coordinates, acq_origin,
                  acq_image, cell_center, acq_outcome, acquired,
                  pixel_to_um_ratio, focusVars, sessionVars, scVars, extraVars >>

\* `self.pixel_to_um_ratio = np.mean(ratios)`
CalibrateFinish ==
  /\ apc = "cal_move"
  /\ cal_k > Len(movements)
  /\ pixel_to_um_ratio' = << mean(ratios(1, pixel_displacements)) >>
  /\ apc' = "idle"
  /\ UNCHANGED << stage_x, stage_y, frame_size, pixel_type, gain,
                  cell_coordinates, acq_origin, acq_image, cell_center, shots,
                  commands, acq_outcome, acquired, cal_k, pixel_displacements,
                  focusVars, sessionVars, scVars, extraVars >>

\* The strategy object, the focus axis and the lamp when no focus run is
\* in progress.
FocusRest ==
  /\ rev = "autofocus.py" /\ strategy = "Amplitude"
  /\ stage_z = 0 /\ lamp = "Off"
  /\ start = 0 /\ end = 0 /\ step = 1
  /\ captures = << >> /\ files = << >>
  /\ pc = "idle"
  /\ i = 0 /\ j = 0
  /\ max_var = max_var_init /\ max_index = -1
  /\ min_var = min_var_init /\ min_index = -1
  /\ variances = << >> /\ z_values = << >>
  /\ outcome = "" /\ result = << >>
  /\ captured_at = << >> /\ attempts = << >>
  /\ calls = 0 /\ stale = 0

InitAcq ==
  /\ frame_size \in FrameSizes
  /\ pixel_type \in PixelTypes
  /\ gain \in Gains \X Gains
  /\ \E p \in StagePositions : stage_x = p[1] /\ stage_y = p[2]
  /\ AcqRest
  /\ FocusRest
  /\ ScalingRest
  /\ ExtraRest

NextAcq ==
  \/ AcquireCell \/ AcquireCheck \/ AcquireRecapture \/ AcquireReturn
  \/ Calibrate \/ CalibrateMove \/ CalibrateMeasure \/ CalibrateFinish

SpecAcq == InitAcq /\ [][NextAcq]_vars

\* ------------------------------------- the transform computation
FracNeg(f) == Frac(-f.n, f.d)
FracMul(f, g) == Frac(f.n * g.n, f.d * g.d)
FracSub(f, g) == FracAdd(f, FracNeg(g))
FracDiv(f, g) == Frac(f.n * g.d, f.d * g.n)

\* The world of the script: the pixel shift the two images show is
\* A * (stage shift), with A = << a11, a12, a21, a22 >>, without noise.
Matrices ==
  {<< p, q, r, t >> : p \in -MaxEntry..MaxEntry, q \in -MaxEntry..MaxEntry,
                      r \in -MaxEntry..MaxEntry, t \in -MaxEntry..MaxEntry}
MatVec(m, v) == << m[1] * v[1] + m[2] * v[2], m[3] * v[1] + m[4] * v[2] >>
Det(m) == m[1] * m[4] - m[2] * m[3]

\* The stage values the operator enters (`I HAVE JUST GUESSED HERE`): the
\* script's 200 or half of it in x, the script's 200 or no move in y.
StageShifts ==
  {<< sx, sy >> : sx \in {stage_shift_x \div 2, stage_shift_x},
                  sy \in {0, stage_shift_Y}}

\* theta = arctan2(c, a); M = a / cos(theta): with cos(theta) =
\* a / sqrt(a^2 + c^2), M * sin(theta) is c and M * cos(theta) is a, unless
\* a = 0, where M = 0 / cos(theta) = 0.
M_sin_theta(a, c) == IF a.n = 0 THEN Frac(0, 1) ELSE c
M_cos_theta(a, c) == IF a.n = 0 THEN Frac(0, 1) ELSE a

\* Lines 56-65: a, c from the measured shift, b = -M sin(theta),
\* d = M cos(theta).
transform(shift, sx) ==
  LET a == Frac(shift[1], sx)
      c == Frac(shift[2], sx)
  IN [a |-> a, b |-> FracNeg(M_sin_theta(a, c)), c |-> c,
      d |-> M_cos_theta(a, c)]

FracDet(t) == FracSub(FracMul(t.a, t.d), FracMul(t.b, t.c))

\* np.linalg.inv(...).dot([px, py])
inv_dot(t, px, py) ==
  LET det == FracDet(t)
  IN << FracDiv(FracSub(FracMul(t.d, Frac(px, 1)), FracMul(t.b, Frac(py, 1))), det),
        FracDiv(FracSub(FracMul(t.a, Frac(py, 1)), FracMul(t.c, Frac(px, 1))), det) >>

\* The transform computation of the script.
ComputeTransform ==
  /\ sc_pc = "start"
  /\ T' = << transform(actual_shift, stage_shift[1]) >>
  /\ sc_pc' = "computed"
  /\ UNCHANGED << A, stage_shift, actual_shift, pixel_in, stage_movement,
                  focusVars, sessionVars, acqVars, extraVars >>

\* predict_stage_movement(px, py), for the example of the script and for
\* the measured shift itself; np.linalg.inv raises LinAlgError on a
\* singular matrix.
PixelShifts(shift) == {shift, << 100, 50 >>}
PredictStageMovement ==
  /\ sc_pc = "computed"
  /\ \E p \in PixelShifts(actual_shift) :
       /\ pixel_in' = p
       /\ IF FracDet(T[1]).n = 0
          THEN /\ sc_pc' = "LinAlgError"
               /\ stage_movement' = << >>
          ELSE /\ sc_pc' = "predicted"
               /\ stage_movement' = << inv_dot(T[1], p[1], p[2]) >>
  /\ UNCHANGED << A, stage_shift, actual_shift, T, focusVars, sessionVars,
                  acqVars, extraVars >>

InitScaling ==
  /\ A \in Matrices
  /\ stage_shift \in StageShifts
  /\ actual_shift = MatVec(A, stage_shift)
  /\ sc_pc = "start"
  /\ T = << >> /\ pixel_in = << >> /\ stage_movement = << >>
  /\ frame_size = [w |-> image_width, h |-> image_height]
  /\ pixel_type = "RGB32"
  /\ gain = << 1, 1 >>
  /\ stage_x = 0 /\ stage_y = 0
  /\ AcqRest
  /\ FocusRest
  /\ ExtraRest

NextScaling == ComputeTransform \/ PredictStageMovement

SpecScaling == InitScaling /\ [][NextScaling]_vars

\* Everything of the focus run, the acquisition object and the transform
\* script at rest.
CoreRest ==
  /\ frame_size = [w |-> image_width, h |-> image_height]
  /\ pixel_type = "RGB32"
  /\ gain = << 1, 1 >>
  /\ stage_x = 0 /\ stage_y = 0
  /\ AcqRest
  /\ FocusRest
  /\ ScalingRest

\* ------------------------------------------- movement compensation
\* The (commanded, measured) pairs a caller fits a model on: n points of
\* slope k.
Slopes == {1, 2}
SamplePairs(n, k) ==
  [commanded |-> [m \in 1..n |-> m], measured |-> [m \in 1..n |-> k * m]]

\* fit_model: curve_fit of a * x**3 + b * x + c, three parameters, raises
\* TypeError on fewer than three points; otherwise the function returned is
\* determined by the data it was fitted on.
n_params == 3
fit_model(commanded, measured) ==
  IF Len(commanded) < n_params
  THEN [raised |-> "TypeError"]
  ELSE [raised |-> "", commanded |-> commanded, measured |-> measured]

\* A call of fit_model for one axis.  It returns the fitted function and
\* assigns no attribute.
FitModel ==
  /\ comp_outcome = ""
  /\ Len(fits) < MaxFits
  /\ \E axis \in {"x", "y"}, n \in 2..MaxSamples, k \in Slopes :
       LET sp == SamplePairs(n, k)
       IN fits' = Append(fits, [axis |-> axis,
                                returned |-> fit_model(sp.commanded, sp.measured)])
  /\ UNCHANGED << x_model, y_model, comp_target, comp_outcome, comp_result,
                  notComp >>

\* compensate_movement(target_dx, target_dy): `self.x_model is None or
\* self.y_model is None` reads the attributes, x_model first.
attribute_read(x, y) ==
  IF x = "unset" THEN "AttributeError"
  ELSE IF x = "None" THEN "ValueError"
  ELSE IF y = "unset" THEN "AttributeError"
  ELSE IF y = "None" THEN "ValueError"
  ELSE "return"
CompTargets == {<< 10, 0 >>, << 0, 10 >>}
CompensateMovement ==
  /\ comp_outcome = ""
  /\ \E t \in CompTargets : comp_target' = << t >>
  /\ comp_outcome' = attribute_read(x_model, y_model)
  /\ comp_result' = IF attribute_read(x_model, y_model) = "return"
                    THEN << x_model, y_model >> ELSE << >>
  /\ UNCHANGED << x_model, y_model, fits, notComp >>

InitComp == CoreRest /\ ExtraRest

NextComp == FitModel \/ CompensateMovement

SpecComp == InitComp /\ [][NextComp]_vars

\* --------------------------------------------- calculate_displacement
\* What knnMatch(des1, des2, k=2) returns: for each descriptor the best
\* match m and the second best n, here their distances.
MatchPairs == {[m |-> d, n |-> 10] : d \in 6..8}
RECURSIVE SeqsUpTo(_, _)
SeqsUpTo(S, n) ==
  IF n = 0 THEN {<< >>}
  ELSE LET shorter == SeqsUpTo(S, n - 1)
       IN shorter \cup {Append(q, e) : q \in {r \in shorter : Len(r) = n - 1}, e \in S}

\* `if m.distance < 0.7 * n.distance`
ratio_test(p) == 10 * p.m < 7 * p.n

\* cv2.findHomography needs four point pairs: with fewer it raises
\* cv2.error or, depending on the OpenCV build, returns (None, None), and
\* then `M[0, 2]` raises TypeError.
min_points == 4
findHomography(good) ==
  IF Len(good) < min_points THEN {"cv2.error", "TypeError"} ELSE {"return"}

\* calculate_displacement from the ratio test on (the same code in
\* base_cell_aquisition.py and in test.py).
CalculateDisplacement ==
  /\ disp_outcome = ""
  /\ good_matches' = SelectSeq(matches, ratio_test)
  /\ homography_called' = TRUE
  /\ disp_outcome' \in findHomography(SelectSeq(matches, ratio_test))
  /\ UNCHANGED << matches, notMatch >>

InitMatch ==
  /\ CoreRest
  /\ RestExceptMatch
  /\ matches \in SeqsUpTo(MatchPairs, MaxMatches)
  /\ good_matches = << >>
  /\ homography_called = FALSE
  /\ disp_outcome = ""

NextMatch == CalculateDisplacement

SpecMatch == InitMatch /\ [][NextMatch]_vars

\* --------------------------------------------------------------- gui.py
\* The handlers of the buttons that use the microscope.
Handlers ==
  {"set_camera_options", "start_autofocus", "capture_image", "move_stage",
   "run_test_script", "apply_cell_id_strategy", "apply_cell_filter_strategy",
   "acquire_selected_cell"}

\* The handlers that open with "if not self.microscope: warning; return".
Guarded == Handlers \ {"acquire_selected_cell"}

\* start_micromanager: without a configuration file a warning and nothing
\* else; with one the button is disabled and the thread started.
StartMicromanager ==
  /\ gui_main = "idle"
  /\ start_enabled
  /\ \E config_file \in {"", "cfg"} :
       IF config_file = ""
         THEN UNCHANGED << start_enabled, init_thread >>
         ELSE /\ start_enabled' = FALSE
              /\ init_thread' = "core"
  /\ UNCHANGED << gui_microscope, gui_main, closing, handled, notGui >>

\* MicroManagerInitThread.run, in Microscope.__init__: initialize_core
\* returns a core, or None and the constructor raises.
InitThreadCore ==
  /\ init_thread = "core"
  /\ \E core \in {"Core", "None"} :
       init_thread' = IF core = "None" THEN "failed" ELSE "components"
  /\ UNCHANGED << gui_microscope, start_enabled, gui_main, closing, handled, notGui >>

\* ... then initialize_components: Camera(core) sets the exposure of the
\* camera; the thread emits finished(microscope) or, when the construction
\* raised, finished(None).
InitThreadComponents ==
  /\ init_thread = "components"
  /\ init_thread' \in {"ok", "failed"}
  /\ UNCHANGED << gui_microscope, start_enabled, gui_main, closing, handled, notGui >>

\* on_micromanager_init_finished, delivered to the main thread.
OnMicromanagerInitFinished ==
  /\ init_thread \in {"ok", "failed"}
  /\ gui_main = "idle"
  /\ start_enabled' = TRUE
  /\ gui_microscope' = IF init_thread = "ok" THEN "Microscope" ELSE gui_microscope
  /\ init_thread' = "none"
  /\ UNCHANGED << gui_main, closing, handled, notGui >>

\* A button handler is entered on the main thread.  The guarded ones warn
\* and return when self.microscope is None and otherwise go on to command
\* the microscope; acquire_selected_cell first reads
\* self.microscope.cell_acquisition, an attribute neither None nor a
\* Microscope has.
HandlerBegin ==
  /\ gui_main = "idle"
  /\ Len(handled) < MaxClicks
  /\ \E h \in Handlers :
       LET entry(o) == [handler |-> h, handle |-> gui_microscope, outcome |-> o]
       IN  IF h \notin Guarded
             THEN /\ handled' = Append(handled, entry("AttributeError"))
                  /\ UNCHANGED gui_main
             ELSE IF gui_microscope = "None"
               THEN /\ handled' = Append(handled, entry("warning"))
                    /\ UNCHANGED gui_main
               ELSE /\ handled' = Append(handled, entry("running"))
                    /\ gui_main' = h
  /\ UNCHANGED << gui_microscope, init_thread, start_enabled, closing, notGui >>

\* ... and left, by return or by an exception.
HandlerEnd ==
  /\ gui_main \in Guarded
  /\ gui_main' = "idle"
  /\ handled' = [handled EXCEPT ![Len(handled)].outcome = "done"]
  /\ UNCHANGED << gui_microscope, init_thread, start_enabled, closing, notGui >>

\* closeEvent: with a microscope, pending events are processed first.
CloseEvent ==
  /\ gui_main = "idle"
  /\ ~closing
  /\ IF gui_microscope = "None"
       THEN gui_main' = "closed" /\ UNCHANGED closing
       ELSE closing' = TRUE /\ UNCHANGED gui_main
  /\ UNCHANGED << gui_microscope, init_thread, start_enabled, handled, notGui >>

\* ... then self.microscope.shutdown() ...
CloseShutdown ==
  /\ closing
  /\ gui_main = "idle"
  /\ gui_main' = "shutdown"
  /\ UNCHANGED << gui_microscope, init_thread, start_enabled, closing, handled, notGui >>

\* ... and self.microscope = None.
CloseAccept ==
  /\ gui_main = "shutdown"
  /\ gui_microscope' = "None"
  /\ gui_main' = "closed"
  /\ closing' = FALSE
  /\ UNCHANGED << init_thread, start_enabled, handled, notGui >>

InitGui == CoreRest /\ RestExceptGui /\ GuiRest

NextGui ==
  \/ StartMicromanager
  \/ InitThreadCore
  \/ InitThreadComponents
  \/ OnMicromanagerInitFinished
  \/ HandlerBegin
  \/ HandlerEnd
  \/ CloseEvent
  \/ CloseShutdown
  \/ CloseAccept

SpecGui == InitGui /\ [][NextGui]_vars

\* ---------------------------------------- microscope.py: settings and lamp
\* The settings the GUI offers (gui.py) and exposures in ms.
SettingsSpace ==
  [Exposure : {8, 15}, ExposureAuto : {"0", "1"}, PixelType : {"GREY8", "RGB32"},
   Binning : {"1x1", "2x2", "4x4"}, FilterCube : {"Position-1", "Position-2"}]

\* "Set to optimal values for autofocus."
autofocus_settings ==
  [Exposure |-> 8, ExposureAuto |-> "0", PixelType |-> "GREY8",
   Binning |-> "1x1", FilterCube |-> "Position-2"]

\* "Set to optimal values for identifying cells." (the exposure is kept)
identify_settings(s) ==
  [s EXCEPT !.ExposureAuto = "1", !.PixelType = "RGB32", !.Binning = "4x4",
            !.FilterCube = "Position-2"]

\* One entry of the history.
Logged(op, after, o, l) ==
  Append(mic_log, [op |-> op, before |-> camera_settings, after |-> after,
                   outcome |-> o, lamp |-> l])

SetAutofocusStrategy ==
  /\ mic_autofocus = "None"
  /\ mic_autofocus' = "strategy"
  /\ UNCHANGED << camera_settings, mic_lamp, mic_cell_identifier, mic_log, notMic >>

SetCellIdentifierStrategy ==
  /\ mic_cell_identifier = "None"
  /\ mic_cell_identifier' = "identifier"
  /\ UNCHANGED << camera_settings, mic_lamp, mic_autofocus, mic_log, notMic >>

\* Microscope.auto_focus: without a strategy ValueError; otherwise the five
\* settings are read, set for autofocus, self.autofocus.focus() runs (its
\* zscan switches the lamp on and in the end off) and, when it returned, the
\* five settings are written back.  An exception of focus() leaves the
\* method at that call.
AutoFocus ==
  /\ Len(mic_log) < MaxOps
  /\ IF mic_autofocus = "None"
       THEN /\ mic_log' = Logged("auto_focus", camera_settings, "ValueError", mic_lamp)
            /\ UNCHANGED << camera_settings, mic_lamp >>
       ELSE \E focus \in {"return", "IndexError"} :
              LET recorded == camera_settings
                  after == IF focus = "return" THEN recorded ELSE autofocus_settings
              IN  /\ camera_settings' = after
                  /\ mic_lamp' = "Off"
                  /\ mic_log' = Logged("auto_focus", after, focus, "Off")
  /\ UNCHANGED << mic_autofocus, mic_cell_identifier, notMic >>

\* Microscope.capture_image: lamp on, four snaps, capture, lamp off, return
\* of the image or of None (snap_image and capture catch their exceptions).
MicCaptureImage ==
  /\ Len(mic_log) < MaxOps
  /\ mic_lamp' = "Off"
  /\ mic_log' = Logged("capture_image", camera_settings, "return", "Off")
  /\ UNCHANGED << camera_settings, mic_autofocus, mic_cell_identifier, notMic >>

\* Microscope.identify_cells: without an identifier ValueError; otherwise
\* four settings are read and set, the lamp is switched on, five snaps, the
\* four settings are written back and the identifier runs.  No statement of
\* the method switches the lamp off.
IdentifyCells ==
  /\ Len(mic_log) < MaxOps
  /\ IF mic_cell_identifier = "None"
       THEN /\ mic_log' = Logged("identify_cells", camera_settings, "ValueError", mic_lamp)
            /\ UNCHANGED << camera_settings, mic_lamp >>
       ELSE \E identify \in {"return", "raise"} :
              LET recorded == camera_settings
                  during == identify_settings(recorded)
                  after == [during EXCEPT !.ExposureAuto = recorded.ExposureAuto,
                                          !.PixelType = recorded.PixelType,
                                          !.Binning = recorded.Binning,
                                          !.FilterCube = recorded.FilterCube]
              IN  /\ camera_settings' = after
                  /\ mic_lamp' = "On"
                  /\ mic_log' = Logged("identify_cells", after, identify, "On")
  /\ UNCHANGED << mic_autofocus, mic_cell_identifier, notMic >>

\* capture_image of test.py: lamp on, five snaps, lamp off.
TestCaptureImage ==
  /\ Len(mic_log) < MaxOps
  /\ mic_lamp' = "Off"
  /\ mic_log' = Logged("test.capture_image", camera_settings, "return", "Off")
  /\ UNCHANGED << camera_settings, mic_autofocus, mic_cell_identifier, notMic >>

InitMic ==
  /\ CoreRest
  /\ RestExceptMic
  /\ camera_settings \in SettingsSpace
  /\ mic_lamp = "Off"
  /\ mic_autofocus = "None"
  /\ mic_cell_identifier = "None"
  /\ mic_log = << >>

NextMic ==
  \/ SetAutofocusStrategy
  \/ SetCellIdentifierStrategy
  \/ AutoFocus
  \/ MicCaptureImage
  \/ IdentifyCells
  \/ TestCaptureImage

SpecMic == InitMic /\ [][NextMic]_vars

\* --------------------------------- microscope.py: __init__ / initialize_core
\* `if attempt < max_attempts:` in the except clause.
may_retry_once_more(n, m) == n <= m
may_retry(n, m) == n < m

\* Microscope.__init__ calls initialize_core; `for attempt in range(1,
\* max_attempts + 1)` has no iteration when max_attempts < 1 and the function
\* then ends without a return statement, which returns None.
InitializeCore ==
  /\ boot_pc = "idle"
  /\ IF max_attempts >= 1
       THEN /\ attempt' = 1
            /\ boot_pc' = "try"
            /\ UNCHANGED mm_core
       ELSE /\ mm_core' = "None"
            /\ boot_pc' = "returned"
            /\ UNCHANGED attempt
  /\ UNCHANGED << max_attempts, delay, headless, tries, components, boot_outcome, notBoot >>

\* The try block of one iteration: headless, start_headless, the wait for
\* the ZMQ server, find_java_process and Core(); otherwise Core() and
\* load_system_configuration; `return core` when nothing raised.
Attempt ==
  /\ boot_pc = "try"
  /\ \E ok \in BOOLEAN :
       /\ tries' = Append(tries, [kind |-> IF headless THEN "start_headless" ELSE "load_system_configuration",
                                  n |-> attempt, ok |-> ok])
       /\ IF ok
            THEN mm_core' = "Core" /\ boot_pc' = "returned"
            ELSE UNCHANGED mm_core /\ boot_pc' = "except"
  /\ UNCHANGED << max_attempts, delay, headless, attempt, components, boot_outcome, notBoot >>

\* The except clause: sleep(delay) and the next iteration, or return None.
Retry ==
  /\ boot_pc = "except"
  /\ IF may_retry(attempt, max_attempts)
       THEN /\ tries' = Append(tries, [kind |-> "sleep", n |-> delay, ok |-> FALSE])
            \* the for statement: the next value of range(), or its end
            /\ IF attempt + 1 <= max_attempts
                 THEN attempt' = attempt + 1 /\ boot_pc' = "try" /\ UNCHANGED mm_core
                 ELSE mm_core' = "None" /\ boot_pc' = "returned" /\ UNCHANGED attempt
       ELSE /\ mm_core' = "None"
            /\ boot_pc' = "returned"
            /\ UNCHANGED << tries, attempt >>
  /\ UNCHANGED << max_attempts, delay, headless, components, boot_outcome, notBoot >>

\* The rest of Microscope.__init__: raise when the core is None, otherwise
\* initialize_components creates the camera, the stage and the lamp.
Construct ==
  /\ boot_pc = "returned"
  /\ boot_pc' = "done"
  /\ IF mm_core = "None"
       THEN boot_outcome' = "Exception" /\ UNCHANGED components
       ELSE boot_outcome' = "return" /\ components' = {"camera", "stage", "lamp"}
  /\ UNCHANGED << max_attempts, delay, headless, attempt, tries, mm_core, notBoot >>

InitBoot ==
  /\ CoreRest
  /\ RestExceptBoot
  /\ max_attempts \in 0..MaxAttempts
  /\ delay \in 0..MaxDelay
  /\ headless \in BOOLEAN
  /\ attempt = 0
  /\ boot_pc = "idle"
  /\ tries = << >>
  /\ mm_core = "unset"
  /\ components = {}
  /\ boot_outcome = ""

NextBoot == InitializeCore \/ Attempt \/ Retry \/ Construct

SpecBoot == InitBoot /\ [][NextBoot]_vars

\* ------------------------------------------------- Stage.py / stage.py
Axes == {"x", "y", "z"}
\* Two positions per axis are enough to tell a kept value from a new one.
PositionValues == {0, 1}
Positions == [Axes -> PositionValues]

\* An argument of move: << >> for None, << v >> for the value v.
MoveArgs == [Axes -> {<< >>} \cup {<< v >> : v \in PositionValues}]

\* `if x is not None: self.x = x`
updated_or_zero(arg, cached) == IF arg # << >> THEN arg[1] ELSE 0
updated(arg, cached) == IF arg # << >> THEN arg[1] ELSE cached

\* Stage.move (the same statements in both files): the cache is updated for
\* the axes given, then set_xy_position(self.x, self.y) and
\* set_position(self.z) command the cached values of all three axes.
StageMove ==
  /\ Len(moves) < MaxMoves
  /\ \E args \in MoveArgs :
       LET new == [a \in Axes |-> updated(args[a], stage_cached[a])]
       IN  /\ stage_cached' = new
           /\ stage_commanded' = new
           /\ moves' = Append(moves, [args |-> args, before |-> stage_cached,
                                      was |-> stage_commanded, commanded |-> new])
  /\ UNCHANGED << stage_read, notStg >>

InitStage ==
  /\ CoreRest
  /\ RestExceptStg
  /\ stage_read \in Positions
  /\ stage_cached = stage_read
  /\ stage_commanded = stage_read
  /\ moves = << >>

NextStage == StageMove

SpecStage == InitStage /\ [][NextStage]_vars

TypeOK ==
  /\ pc \in {"idle", "sweep", "score", "done"}
  /\ lamp \in {"On", "Off"}
  /\ outcome \in {"", "return", "IndexError"}
  /\ Len(captured_at) = Len(captures)

\* ------------------------------------------------- vocabulary of the claims
Ok(a) == a.ok
OkAttempts == SelectSeq(attempts, Ok)
Swept == pc \in {"score", "done"}

PathOf(entry) == IF IsPath(entry) THEN entry ELSE entry.pre_path
FrameOf(m) == files[PathOf(captures[m])]
IsScorable(m) == FrameOf(m).mean # 0
ScoreOf(m) == [n |-> FrameOf(m).std * FrameOf(m).std, d |-> FrameOf(m).mean]
ScorableSet == {m \in 1..Len(captures) : IsScorable(m)}

\* The position recorded for the m-th frame: that of the loop iteration
\* which captured it.
RecordedZ(m) == OkAttempts[m].z_val

UniqueMaxAt(m) ==
  /\ m \in ScorableSet
  /\ \A m2 \in ScorableSet \ {m} : Less(ScoreOf(m2), ScoreOf(m))
UniqueMinAt(m) ==
  /\ m \in ScorableSet
  /\ \A m2 \in ScorableSet \ {m} : Greater(ScoreOf(m2), ScoreOf(m))

\* ----------------------------------------------------------------- claims
\* C1: when zscan has finished, whatever captures failed, the focus axis is
\* back at start and the lamp is off.
C1_ReturnsToStartLampOff ==
  Swept => (stage_z = start /\ lamp = "Off")

C1_Witness ==
  /\ Swept
  /\ Len(attempts) >= 2
  /\ \E k \in 1..Len(attempts) : ~attempts[k].ok
  /\ \E k \in 1..Len(attempts) : attempts[k].ok
  /\ attempts[Len(attempts)].z_val # start
  /\ stage_z = start /\ lamp = "Off"

\* C2: every recorded frame was captured with the stage at the position it
\* is recorded with.
C2_FramePairedWithCapturePosition ==
  \A m \in 1..Len(captures) : captured_at[m] = RecordedZ(m)

\* C3: a failed capture does not abort the sweep: it adds no frame, the
\* axis is still moved to that position, every position of the range is
\* attempted, and the recorded frames are those of the successful
\* iterations, in order.
C3_FailureSkipsPositionOnly ==
  /\ Len(captures) = Len(OkAttempts)
  /\ \A m \in 1..Len(captures) :
       PathOf(captures[m]) =
         capture_path(rev, OkAttempts[m].i, OkAttempts[m].z_val)
  /\ \A k \in 1..Len(attempts) :
       attempts[k].i = k - 1 /\ attempts[k].z_val = arange_at(start, step, k - 1)
  /\ (pc = "sweep" /\ Len(attempts) > 0) =>
       stage_z = attempts[Len(attempts)].z_val
  /\ Swept => Len(attempts) = arange_len(start, end, step)

C3_Witness ==
  /\ Swept
  /\ Len(attempts) = 3
  /\ ~attempts[1].ok /\ attempts[2].ok /\ attempts[3].ok
  /\ Len(captures) = 2

\* C4: a sweep in which every capture failed, so that no frame was recorded,
\* makes focus() fail (with AcquisitionError): it returns no focus position.
C4_ZeroFramesFails ==
  (pc = "done" /\ Len(attempts) > 0 /\ Len(captures) = 0)
    => (outcome # "return" /\ result = << >>)

\* C5: when Amplitude.focus returns and the scored frames have a unique
\* maximum, the position returned is the one recorded for that frame.
C5_MaximizeReturnsPositionOfMaximum ==
  (pc = "done" /\ strategy = "Amplitude" /\ outcome = "return") =>
    \A m \in 1..Len(captures) : UniqueMaxAt(m) => result = << RecordedZ(m) >>

\* C6: when the scored frames have a unique minimum, Phase.focus returns the
\* position recorded for that frame.
C6_MinimizeReturnsPositionOfMinimum ==
  (pc = "done" /\ strategy = "Phase") =>
    \A m \in 1..Len(captures) :
      UniqueMinAt(m) => (outcome = "return" /\ result = << RecordedZ(m) >>)

\* The scored frames whose score is the largest, and the smallest.
MaxSet == {m \in ScorableSet : \A m2 \in ScorableSet : ~Greater(ScoreOf(m2), ScoreOf(m))}
MinSet == {m \in ScorableSet : \A m2 \in ScorableSet : ~Less(ScoreOf(m2), ScoreOf(m))}
Earliest(S) == CHOOSE m \in S : \A m2 \in S : m <= m2

\* C7: when several scored frames share the extremal score, focus() returns
\* the position of the earliest of them, under both strategies.
C7_TieResolvesToEarliest ==
  pc = "done" =>
    LET E == IF strategy = "Amplitude" THEN MaxSet ELSE MinSet
    IN Cardinality(E) >= 2 =>
         (outcome = "return" /\ result = << RecordedZ(Earliest(E)) >>)

\* C8: when frames were recorded but none of them was scored, focus() fails
\* (with NoValidFocusError): it returns no position, and so none computed
\* from the index -1 that stands for "no result".
C8_NoScorableFrameFails ==
  (pc = "done" /\ Len(captures) > 0 /\ Len(variances) = 0)
    => (outcome # "return" /\ result = << >>)

\* C9 as stated: the run from 1000 to 1010 with step 1 visits the eleven
\* positions 1000..1010 and Amplitude.focus returns 1003.
E2ERun ==
  /\ pc = "done"
  /\ strategy = "Amplitude"
  /\ [start |-> start, end |-> end, step |-> step] = E2ESweep
  /\ \A k \in 1..Len(attempts) : attempts[k].ok

C10_ZeroMeanFrameSkipped ==
  [][ (pc = "score" /\ j < Len(captures) /\ j' = j + 1
         /\ FrameOf(j + 1).mean = 0)
      => /\ variances' = variances
         /\ z_values' = z_values
         /\ max_var' = max_var /\ max_index' = max_index
         /\ min_var' = min_var /\ min_index' = min_index ]_vars

C10_Witness ==
  /\ pc = "score"
  /\ j >= 2
  /\ FrameOf(j).mean = 0
  /\ Len(variances) >= 1
  /\ max_index >= 0 \/ min_index >= 0

\* C11: in any sequence of focus() calls on one Amplitude instance of
\* autofocus.py, the scoring pass of a call examines only the frames its own
\* sweep captured, and the position it returns is one that sweep visited.
OwnFrames == {m \in 1..Len(captures) : m > stale}
Visited == {attempts[k].z_val : k \in 1..Len(attempts)}
C11_FramesBelongToSession ==
  (rev = "autofocus.py" /\ strategy = "Amplitude") =>
     /\ Swept => j <= Cardinality(OwnFrames)
     /\ (pc = "done" /\ outcome = "return") => result[1] \in Visited

\* ------------------------------------------- vocabulary: acquisition
\* Where the target is now, and how far (in pixels, the larger of the two
\* axes) it is from a given point of the frame.
Target == TargetAt(cell_coordinates, acq_origin, gain, stage_x, stage_y)
Max(a, b) == IF a >= b THEN a ELSE b
Residual(center) ==
  Max(Abs(Target[1] - center[1]), Abs(Target[2] - center[2]))
FrameCenter == << frame_size.w \div 2, frame_size.h \div 2 >>
Acquired == apc = "done" /\ acq_outcome = "return"
\* acquire_cell contains two stage.move calls and no loop: two is the most
\* corrections a session can issue.
corrections_cap == 2

\* C12: an acquisition session ends only when the residual pixel error is
\* below the tolerance or the cap on corrections has been reached, and it
\* never issues more corrections than the cap.
C12_TerminalOnlyWhenConvergedOrCapped ==
  \A tol \in 1..MaxTol :
     Acquired =>
        /\ Residual(image_center) < tol \/ Len(commands) = corrections_cap
        /\ Len(commands) <= corrections_cap

\* C13: with a static target and an exact pixel-to-stage transform, a
\* session that returns has brought the target to within the tolerance of
\* the centre of the frame, in no more corrections than the cap.
ExactTransform == gain = << 1, 1 >>
C13_ExactTransformConverges ==
  \A tol \in 1..MaxTol :
     (ExactTransform /\ Acquired) =>
        /\ Residual(FrameCenter) < tol
        /\ Len(commands) <= corrections_cap

\* C14: when the target cannot be found again in the frame captured after
\* a move, acquire_cell fails: it does not return an image as a successful
\* acquisition.
NotRelocated == apc = "done" /\ acq_image # NoImage /\ cvtColor_ok(acq_image) /\ cell_center = << >>
C14_LostTargetFails == NotRelocated => acq_outcome \notin {"", "return"}

\* C15: once calibrate() has completed, every stage delta a following
\* acquire_cell commands is the measured pixel offset converted with the
\* calibration result (self.pixel_to_um_ratio), each correction with its
\* own factor.
Calibrated == pixel_to_um_ratio # << >>
CorrectionFactor(k) == IF k = 1 THEN first_move_factor ELSE fine_tune_factor
\* delta = pixels * ratio * factor um, compared without dividing
DeltaMatches(delta_units, pixels, ratio, factor) ==
  delta_units * ratio.d * factor.d = pixels * ratio.n * factor.n * UnitsPerUm
InAcquire == apc \in {"check", "recapture", "draw", "done"}
C15_DeltaFromCalibration ==
  (Calibrated /\ InAcquire) =>
     \A k \in 1..Len(commands) :
        /\ DeltaMatches(commands[k].to[1] - commands[k].from[1],
                        commands[k].pixels[1], pixel_to_um_ratio[1],
                        CorrectionFactor(k))
        /\ DeltaMatches(commands[k].to[2] - commands[k].from[2],
                        commands[k].pixels[2], pixel_to_um_ratio[1],
                        CorrectionFactor(k))

\* C16: every correction after the first is the measured pixel offset
\* converted to a stage delta and scaled by the damping factor the caller
\* supplies, whichever factor in (0, 1] that is; the first correction is
\* unscaled.
DampingFactors == {[n |-> k, d |-> MaxDamp] : k \in 1..MaxDamp}
C16_CorrectionsScaledByDampingFactor ==
  \A damping_factor \in DampingFactors :
     InAcquire =>
        \A k \in 1..Len(commands) :
           LET f == IF k = 1 THEN first_move_factor ELSE damping_factor
           IN /\ DeltaMatches(commands[k].to[1] - commands[k].from[1],
                              commands[k].pixels[1], pixel_to_um_ratio_x, f)
              /\ DeltaMatches(commands[k].to[2] - commands[k].from[2],
                              commands[k].pixels[2], pixel_to_um_ratio_y, f)

\* C17: a successful acquire_cell returns the last image captured in the
\* session, with a marker of fixed size at the centre of that image
\* (x = width / 2, y = height / 2 of the image returned).
C17_MarkerAtCentreOfReturnedImage ==
  Acquired =>
     /\ acquired[1].base = shots
     /\ acquired[1].cross_size = cross_size
     /\ acquired[1].cross_at = << acquired[1].w \div 2, acquired[1].h \div 2 >>

\* C18: during calibration every planned move is followed, once measured,
\* by a move back to the origin before the next planned move; a completed
\* calibration leaves the stage at the origin; one sample is recorded per
\* planned move, in the order of the moves.
Calibrating == apc \in {"cal_move", "cal_measure"}
CalibrationComplete == apc = "idle" /\ Calibrated
PlannedTarget(k) ==
  << acq_origin[1] + movements[k][1] * UnitsPerUm,
     acq_origin[2] + movements[k][2] * UnitsPerUm >>
C18_CalibrationReturnsToOrigin ==
  /\ (Calibrating \/ CalibrationComplete) =>
        /\ \A k \in 1..Len(commands) :
              commands[k].to = IF k % 2 = 1 THEN PlannedTarget((k + 1) \div 2)
                               ELSE acq_origin
        /\ Len(pixel_displacements) = Len(commands) \div 2
        /\ \A k \in 1..Len(pixel_displacements) :
              pixel_displacements[k] =
                 calculate_displacement(gain, movements[k][1] * UnitsPerUm,
                                        movements[k][2] * UnitsPerUm)
  /\ apc = "cal_move" => << stage_x, stage_y >> = acq_origin
  /\ CalibrationComplete =>
        /\ << stage_x, stage_y >> = acq_origin
        /\ Len(pixel_displacements) = Len(movements)
C18_Witness ==
  /\ CalibrationComplete
  /\ Len(commands) = 2 * Len(movements)
  /\ << stage_x, stage_y >> = acq_origin

\* ------------------------------------------ vocabulary: the transform
Invertible(m) == Det(m) # 0
SameMatrix(t, m) ==
  /\ FracEq(t.a, Frac(m[1], 1)) /\ FracEq(t.b, Frac(m[2], 1))
  /\ FracEq(t.c, Frac(m[3], 1)) /\ FracEq(t.d, Frac(m[4], 1))
Computed == sc_pc \in {"computed", "predicted", "LinAlgError"}

\* C19: for a noiseless sample measured = A * commanded with A invertible,
\* the computation yields A, and the inverse of the computed transform
\* applied to the measured pixel shift gives back the commanded stage shift.
C19_RecoversTransform ==
  Invertible(A) =>
     /\ Computed => SameMatrix(T[1], A)
     /\ (sc_pc = "predicted" /\ pixel_in = actual_shift) =>
           /\ FracEq(stage_movement[1][1], Frac(stage_shift[1], 1))
           /\ FracEq(stage_movement[1][2], Frac(stage_shift[2], 1))

\* C20: every transform the computation produces has a non-zero
\* determinant, so its inverse exists when a stage movement is predicted.
C20_TransformInvertible ==
  /\ Computed => FracDet(T[1]).n # 0
  /\ sc_pc # "LinAlgError"

\* ------------------------------------------ vocabulary: compensation
Fitted(axis) ==
  \E k \in 1..Len(fits) : fits[k].axis = axis /\ fits[k].returned.raised = ""
LastFit(axis) ==
  LET ks == {k \in 1..Len(fits) : fits[k].axis = axis /\ fits[k].returned.raised = ""}
  IN fits[CHOOSE k \in ks : \A k2 \in ks : k2 <= k].returned
Compensated == comp_outcome # ""

\* C21: compensate_movement called when no model has been fitted fails
\* with the not-calibrated error (the ValueError 'Compensator not
\* calibrated'), on a freshly constructed object as well.
C21_NotCalibratedError ==
  (Compensated /\ ~(Fitted("x") /\ Fitted("y"))) => comp_outcome = "ValueError"

\* C22: once a model has been fitted for both axes, compensate_movement
\* returns a command computed with the models fitted last, instead of
\* failing.
C22_UsesFittedModels ==
  (Compensated /\ Fitted("x") /\ Fitted("y")) =>
     /\ comp_outcome = "return"
     /\ comp_result = << LastFit("x"), LastFit("y") >>

\* C23: calculate_displacement keeps exactly the matches whose best
\* distance is below 0.7 times the second-best distance, and with fewer
\* than 4 kept matches it fails with the insufficient-feature-matches
\* error before any transform is fitted or read.
KeptByRatio(p) == p.m * 10 < p.n * 7
C23_RatioTestAndMatchThreshold ==
  disp_outcome # "" =>
     /\ good_matches = SelectSeq(matches, KeptByRatio)
     /\ Len(good_matches) < 4 =>
           /\ disp_outcome = "InsufficientFeatureMatchesError"
           /\ ~homography_called

\* ------------------------------------------------------------------ C24
\* Who is commanding the devices: the initialisation thread while it builds
\* the camera, stage and lamp, and the routine the main thread is inside.
Commanding ==
  (IF init_thread = "components" THEN {"init"} ELSE {}) \cup
  (IF gui_main \in Guarded \cup {"shutdown"} THEN {gui_main} ELSE {})

\* C24: at no time do two routines command the devices at once: a routine
\* started while another is active is excluded until the active one is done,
\* also while the initialisation thread runs or closeEvent processes events.
C24_MutualExclusion == Cardinality(Commanding) <= 1

\* ------------------------------------------------------------------ C30
\* C30: every handler that uses the microscope, invoked while the handle is
\* None, returns with a warning (it neither raises nor commands hardware),
\* and the handle becomes non-None only when the initialisation thread has
\* reported a constructed Microscope.
C30_HandlersGuardTheHandle ==
  [][ /\ \A click \in 1..Len(handled') :
           handled'[click].handle = "None" => handled'[click].outcome = "warning"
      /\ (gui_microscope = "None" /\ gui_microscope' # "None")
           => init_thread = "ok" ]_vars

\* ------------------------------------------------------------------ C25
\* C25: when the sweep of Amplitude.focus (autofocus.py) yields exactly one
\* scorable frame, focus() returns the position recorded for that frame; it
\* fails only when no frame could be scored.
C25_SingleFrameSweepReturnsItsPosition ==
  (pc = "done" /\ rev = "autofocus.py" /\ strategy = "Amplitude") =>
    /\ \A m \in ScorableSet :
         ScorableSet = {m} => (outcome = "return" /\ result = << RecordedZ(m) >>)
    /\ outcome # "return" => ScorableSet = {}

\* ------------------------------------------------------------------ C26
\* C26: whenever Microscope.auto_focus terminates, by returning or because
\* the strategy raised, exposure, auto-exposure, pixel type, binning and
\* filter cube are what they were before the call.
C26_AutoFocusRestoresSettings ==
  \A k \in 1..Len(mic_log) :
    mic_log[k].op = "auto_focus" => mic_log[k].after = mic_log[k].before

\* ------------------------------------------------------------------ C27
\* C27: every operation that switches the lamp on (auto_focus through zscan,
\* capture_image, identify_cells, the capture_image of test.py) leaves it off
\* when it returns normally, so the lamp is off between operations.
C27_LampOffBetweenOperations ==
  /\ \A k \in 1..Len(mic_log) :
       mic_log[k].outcome = "return" => mic_log[k].lamp = "Off"
  /\ mic_lamp = "Off"

\* ------------------------------------------------------------------ C28
IsAttempt(e) == e.kind # "sleep"
AttemptsMade == SelectSeq(tries, IsAttempt)

\* C28: initialize_core makes at most max_attempts attempts, returns the
\* core at the first success without a further attempt, waits `delay` only
\* between a failed attempt and the next one, returns None after
\* max_attempts failures, and then Microscope() raises with no camera,
\* stage or lamp created.
C28_BoundedRetries ==
  /\ Len(AttemptsMade) <= max_attempts
  /\ \A k \in 1..Len(AttemptsMade) : AttemptsMade[k].n = k
  /\ \A k \in 1..Len(tries) :
       /\ (IsAttempt(tries[k]) /\ tries[k].ok) =>
            (k = Len(tries) /\ mm_core = "Core" /\ boot_pc \in {"returned", "done"})
       /\ ~IsAttempt(tries[k]) =>
            /\ tries[k].n = delay
            /\ k > 1 /\ IsAttempt(tries[k - 1]) /\ ~tries[k - 1].ok
            /\ IF k < Len(tries) THEN IsAttempt(tries[k + 1]) ELSE boot_pc = "try"
  /\ (boot_pc \in {"returned", "done"} /\ mm_core # "Core") =>
       (mm_core = "None" /\ Len(AttemptsMade) = max_attempts)
  /\ (boot_pc = "done" /\ mm_core = "None") =>
       (boot_outcome = "Exception" /\ components = {})

C28_Witness ==
  /\ boot_pc = "done"
  /\ boot_outcome = "Exception"
  /\ max_attempts >= 2
  /\ delay > 0
  /\ Len(AttemptsMade) = max_attempts
  /\ Len(tries) = 2 * max_attempts - 1

\* ------------------------------------------------------------------ C29
\* What the device was last told for an axis before the k-th move: the
\* command of the move before, or the position read at construction.
LastCommanded(k) == IF k > 1 THEN moves[k - 1].commanded ELSE stage_read
CachedAfter(k) == IF k < Len(moves) THEN moves[k + 1].before ELSE stage_cached

\* C29: Stage.move changes only the axes passed as non-None: the cached
\* position of an omitted axis is unchanged and the value commanded for it
\* is the one last commanded for it; a given axis is cached and commanded
\* as given.
C29_MoveChangesOnlyGivenAxes ==
  \A k \in 1..Len(moves) : \A a \in Axes :
    IF moves[k].args[a] = << >>
      THEN /\ CachedAfter(k)[a] = moves[k].before[a]
           /\ moves[k].commanded[a] = LastCommanded(k)[a]
      ELSE /\ CachedAfter(k)[a] = moves[k].args[a][1]
           /\ moves[k].commanded[a] = moves[k].args[a][1]

\* A z-only move after a move of x and y, away from the origin.
C29_Witness ==
  /\ Len(moves) = 2
  /\ moves[1].args["x"] = << 1 >> /\ moves[1].args["y"] = << 1 >>
  /\ moves[2].args = [a \in Axes |-> IF a = "z" THEN << 1 >> ELSE << >>]
  /\ stage_commanded = [x |-> 1, y |-> 1, z |-> 1]
  /\ stage_read = [x |-> 0, y |-> 0, z |-> 0]

====
